---- MODULE Spec2Model ----
(***************************************************************************)
(* Void Scanner (port_scanner.py): the menu loop, the target, the cached   *)
(* TCP scan result, the connect loop of tcp_scan and the JSON result       *)
(* store.  Text the user types is a sequence of one-character strings, so  *)
(* that validation, parsing and key normalisation are computed as the      *)
(* program computes them.                                                  *)
(***************************************************************************)
EXTENDS Integers, Sequences, FiniteSets, TLC

\* ------------------------------------------------------------------------
\* Bounds of the model
\* ------------------------------------------------------------------------

\* Largest port number of the systematically enumerated port inputs.
MaxPort == 2

\* ------------------------------------------------------------------------
\* Text helpers (str methods used by the program)
\* ------------------------------------------------------------------------

Digit == {"0", "1", "2", "3", "4", "5", "6", "7", "8", "9"}

HexDigit == Digit \cup {"a", "b", "c", "d", "e", "f", "A", "B", "C", "D", "E", "F"}

DigitVal(c) ==
    CASE c = "0" -> 0 [] c = "1" -> 1 [] c = "2" -> 2 [] c = "3" -> 3
      [] c = "4" -> 4 [] c = "5" -> 5 [] c = "6" -> 6 [] c = "7" -> 7
      [] c = "8" -> 8 [] c = "9" -> 9

DigitChar(d) ==
    CASE d = 0 -> "0" [] d = 1 -> "1" [] d = 2 -> "2" [] d = 3 -> "3"
      [] d = 4 -> "4" [] d = 5 -> "5" [] d = 6 -> "6" [] d = 7 -> "7"
      [] d = 8 -> "8" [] d = 9 -> "9"

\* c in s
Contains(s, c) == \E i \in 1..Len(s) : s[i] = c

\* s.split(c): the parts between the occurrences of c, always at least one.
RECURSIVE Split(_, _)
Split(s, c) ==
    IF ~Contains(s, c) THEN <<s>>
    ELSE LET i == CHOOSE k \in 1..Len(s) :
                      s[k] = c /\ \A j \in 1..(k - 1) : s[j] # c
         IN  <<SubSeq(s, 1, i - 1)>> \o Split(SubSeq(s, i + 1, Len(s)), c)

\* s.replace(old, new) for single characters.
Replace(s, old, new) == [i \in 1..Len(s) |-> IF s[i] = old THEN new ELSE s[i]]

\* s.strip() for the blank character.
RECURSIVE Strip(_)
Strip(s) ==
    IF s = <<>> THEN s
    ELSE IF Head(s) = " " THEN Strip(Tail(s))
    ELSE IF s[Len(s)] = " " THEN Strip(SubSeq(s, 1, Len(s) - 1))
    ELSE s

\* Value of a string of decimal digits.
RECURSIVE DecValue(_)
DecValue(s) ==
    IF s = <<>> THEN 0
    ELSE 10 * DecValue(SubSeq(s, 1, Len(s) - 1)) + DigitVal(s[Len(s)])

\* Decimal text of a natural number (str(n)).
RECURSIVE Decimal(_)
Decimal(n) ==
    IF n < 10 THEN <<DigitChar(n)>>
    ELSE Decimal(n \div 10) \o <<DigitChar(n % 10)>>

\* The digits of an int() literal once blanks and a leading sign are gone:
\* digits, with single underscores allowed between digits.
IsIntBody(b) ==
    /\ b # <<>>
    /\ \A i \in 1..Len(b) : b[i] \in Digit \cup {"_"}
    /\ b[1] # "_" /\ b[Len(b)] # "_"
    /\ \A i \in 1..(Len(b) - 1) : ~(b[i] = "_" /\ b[i + 1] = "_")

IntBody(s) ==
    LET t == Strip(s)
    IN  IF t # <<>> /\ Head(t) \in {"+", "-"} THEN Tail(t) ELSE t

\* int(s) succeeds (otherwise it raises ValueError).
IntOk(s) == IsIntBody(IntBody(s))

\* int(s), for s with IntOk(s).
IntValue(s) ==
    LET t == Strip(s)
        v == DecValue(SelectSeq(IntBody(s), LAMBDA c : c # "_"))
    IN  IF t # <<>> /\ Head(t) = "-" THEN 0 - v ELSE v

\* ------------------------------------------------------------------------
\* Address validation (check_ip_format -> ipaddress.ip_address)
\* ------------------------------------------------------------------------

\* One octet of IPv4Address: decimal digits only, at most three of them, no
\* leading zero, value at most 255.
OctetOk(o) ==
    /\ o # <<>>
    /\ \A i \in 1..Len(o) : o[i] \in Digit
    /\ Len(o) <= 3
    /\ ~(Len(o) > 1 /\ o[1] = "0")
    /\ DecValue(o) <= 255

\* ipaddress.IPv4Address(s) does not raise.
IPv4Ok(s) ==
    LET octets == Split(s, ".")
    IN  /\ Len(octets) = 4
        /\ \A i \in 1..4 : OctetOk(octets[i])

\* One group of IPv6Address: one to four hexadecimal digits.
HextetOk(h) ==
    /\ Len(h) \in 1..4
    /\ \A i \in 1..Len(h) : h[i] \in HexDigit

\* ipaddress.IPv6Address(s) does not raise: an optional %scope, at least
\* three ':'-separated parts, an optional dotted IPv4 tail counting for two
\* groups, at most one '::', eight groups in all.
IPv6Ok(s) ==
    LET pct    == Split(s, "%")
        addr   == pct[1]
        scoped == Len(pct) > 1
        raw    == Split(addr, ":")
        tail4  == Contains(raw[Len(raw)], ".")
        \* the IPv4 tail is replaced by two groups
        parts  == IF tail4
                  THEN SubSeq(raw, 1, Len(raw) - 1) \o <<<<"0">>, <<"0">>>>
                  ELSE raw
        n      == Len(parts)
        skips  == {i \in 2..(n - 1) : parts[i] = <<>>}
        skip   == CHOOSE i \in skips : TRUE
        hi     == IF parts[1] = <<>> THEN skip - 2 ELSE skip - 1
        lo     == IF parts[n] = <<>> THEN n - skip - 1 ELSE n - skip
        groups == {i \in 1..n : parts[i] # <<>>}
    IN  /\ scoped => (Len(pct) = 2 /\ pct[2] # <<>>)
        /\ Len(raw) >= 3
        /\ tail4 => IPv4Ok(raw[Len(raw)])
        /\ n <= 9
        /\ Cardinality(skips) <= 1
        /\ IF skips # {}
           THEN /\ parts[1] = <<>> => hi = 0
                /\ parts[n] = <<>> => lo = 0
                /\ 8 - (hi + lo) >= 1
           ELSE /\ n = 8
                /\ parts[1] # <<>>
                /\ parts[n] # <<>>
        /\ \A i \in groups : HextetOk(parts[i])

\* check_ip_format(ip): True iff ipaddress.ip_address(ip) does not raise
\* ValueError, i.e. ip is an IPv4 or an IPv6 address.
check_ip_format(ip) == IPv4Ok(ip) \/ IPv6Ok(ip)

\* ------------------------------------------------------------------------
\* Values
\* ------------------------------------------------------------------------

\* Python's None, for the integer-valued variables that can hold it.
None == -1

\* Target = "0": the module-level "no target" value.
UnsetTarget == <<"0">>

\* tcp_results = {}: the empty dict.  A dict is a function from its keys.
EmptyDict == [k \in {} |-> <<>>]

\* Variant of Truthy: a dict whose lists are all empty counts as false.
Truthy_hasPorts(d) == \E k \in DOMAIN d : d[k] # <<>>

\* bool(d) of a dict: a dict is true iff it has a key.
Truthy(d) == DOMAIN d # {}

\* The JSON string "No TCP Scan Data" (a string value is kept in a record so
\* that it can stand where a dict can).
NoTcpScanData == [str |-> "No TCP Scan Data"]

RESULTS_DIR == <<"s", "c", "a", "n", "_", "r", "e", "s", "u", "l", "t", "s">>

JsonExt == <<".", "j", "s", "o", "n">>

\* A file whose JSON text was cut short by a failed write.
PartialFile == [str |-> "<truncated>"]

\* Largest port number connect_ex accepts.
PortLimit == 65535

\* ------------------------------------------------------------------------
\* What the user may type
\* ------------------------------------------------------------------------

AddressInputs ==
    { <<"1", ".", "1", ".", "1", ".", "1">>,
      <<":", ":", "1">>,
      <<"0">>,
      <<"9", "9", "9", ".", "1", ".", "1", ".", "1">>,
      <<"1", "_", "1", "_", "1", "_", "1">> }

\* "N" and "N-M" for the small ports, the ports at the ends of the port
\* numbers (0, and 65535 with its successor), and the irregular inputs.
PortInputs ==
    { Decimal(a) : a \in 1..MaxPort }
      \cup { Decimal(a) \o <<"-">> \o Decimal(b) : a, b \in 1..MaxPort }
      \cup { <<"0">>,
             Decimal(PortLimit) \o <<"-">> \o Decimal(PortLimit + 1),
             <<"a", "b", "c">>,
             <<"1", "-", "2", "-", "3">>,
             <<"-", "5">>,
             <<>> }

\* Two of the speeds, one of them in capitals, and two texts that are no
\* speed.
SpeedInputs ==
    { <<"f", "a", "s", "t">>,
      <<"S", "L", "O", "W">>,
      <<"t", "u", "r", "b", "o">>,
      <<>> }

\* What the network does with one connection attempt.
NetOutcomes == {"accepted", "refused", "timedout"}

\* str.lower(), on the letters of the speed inputs.
LowerChar(c) ==
    CASE c = "S" -> "s" [] c = "L" -> "l" [] c = "O" -> "o" [] c = "W" -> "w"
      [] OTHER -> c

Lower(s) == [i \in 1..Len(s) |-> LowerChar(s[i])]

Speeds ==
    { <<"f", "a", "s", "t">>, <<"n", "o", "r", "m", "a", "l">>,
      <<"s", "l", "o", "w">> }

\* ------------------------------------------------------------------------
\* The functions of the program, as operators
\* ------------------------------------------------------------------------

\* Variant of TargetIsSet: the guard is missing.
TargetIsSet_always(t) == TRUE

\* handle_choice guards every operation with  Target != "0".
TargetIsSet(t) == t # UnsetTarget

\* handle_choice, choice "3": the port prompt is parsed with split and int;
\* any failure is an uncaught ValueError.
PortInputOk(s) ==
    IF Contains(s, "-")
    THEN LET parts == Split(s, "-")
         IN  Len(parts) = 2 /\ IntOk(parts[1]) /\ IntOk(parts[2])
    ELSE IntOk(s)

ParsedStart(s) ==
    IF Contains(s, "-") THEN IntValue(Split(s, "-")[1]) ELSE IntValue(s)

ParsedEnd(s) ==
    IF Contains(s, "-") THEN IntValue(Split(s, "-")[2]) ELSE None

\* Variant of SpeedOk: every speed is let through to tcp_scan.
SpeedOk_any(sp) == TRUE

\* handle_choice: the speed prompt is repeated  while speed not in
\* ['fast', 'normal', 'slow'].
SpeedOk(sp) == sp \in Speeds

\* tcp_scan: the timeout of a speed, in milliseconds.
Timeout(sp) ==
    IF sp = <<"f", "a", "s", "t">> THEN 500
    ELSE IF sp = <<"s", "l", "o", "w">> THEN 2000
    ELSE 1000

\* socket.connect_ex on a socket with a timeout: 0 on success, and the error
\* number otherwise.  A connect that runs into the timeout is returned as
\* EAGAIN like any other failure; connect_ex does not raise socket.timeout.
connect_ex(outcome) ==
    CASE outcome = "accepted" -> 0
      [] outcome = "refused"  -> 111
      [] outcome = "timedout" -> 11

\* Whether the body of the try block raises socket.timeout.
RaisesTimeout(outcome) == FALSE

\* Variant of PortClass: a failed connection is appended to no list.
PortClass_dropFailed(outcome) ==
    IF RaisesTimeout(outcome) THEN "filtered"
    ELSE IF connect_ex(outcome) = 0 THEN "open"
    ELSE IF outcome = "timedout" THEN "none"
    ELSE "closed"

\* tcp_scan: the list the loop body appends the port to.
PortClass(outcome) ==
    IF RaisesTimeout(outcome) THEN "filtered"
    ELSE IF connect_ex(outcome) = 0 THEN "open"
    ELSE "closed"

\* ping_scan has no return statement: whatever ping_single_ip found, the
\* caller gets None, which is false.
ping_scan(reply) == FALSE

\* save_results_to_json: ".json" is appended unless the name ends with it,
\* and the file lives in RESULTS_DIR.
EndsWithJson(name) ==
    /\ Len(name) >= Len(JsonExt)
    /\ SubSeq(name, Len(name) - Len(JsonExt) + 1, Len(name)) = JsonExt

SaveFilepath(filename) ==
    RESULTS_DIR \o <<"/">> \o
        (IF EndsWithJson(filename) THEN filename ELSE filename \o JsonExt)

\* handle_choice, choice "4": the name of the file of a target.
SaveFilename(target) == Replace(target, ".", "_")

\* handle_choice, choice "4": the record that is saved.
SaveData(target, results, alive) ==
    [ ping     |-> [ Target |-> target,
                     Status |-> IF alive THEN "active" ELSE "inactive" ],
      tcp_scan |-> IF Truthy(results) THEN results ELSE NoTcpScanData ]

\* retrieve_and_print_results: the file of an address.
RetrieveFilename(ip) == RESULTS_DIR \o <<"/">> \o Replace(ip, ".", "_") \o JsonExt

\* What a retrieval displays.
NoReport == [ip |-> <<>>, found |-> FALSE, ping |-> "", tcp |-> "", rows |-> {}]

\* Variant of retrieve_report: a missing file is displayed as a record
\* without data.
retrieve_report_default(ip, fs) ==
    [ ip |-> ip, found |-> TRUE, ping |-> "No Ping Scan Data available",
      tcp |-> "No TCP Scan Data", rows |-> {} ]

\* retrieve_and_print_results, for a valid ip and a store whose file for the
\* ip, if there is one, holds a JSON document: the lines displayed.  The
\* ping line is taken from the key 'ping_scan'; the TCP rows are the items of
\* the 'tcp_scan' dict, printed as "key/tcp value".
retrieve_report(ip, fs) ==
    LET filename == RetrieveFilename(ip)
        data     == fs[filename]
        tcp      == IF "tcp_scan" \in DOMAIN data THEN data.tcp_scan
                    ELSE NoTcpScanData
    IN  IF filename \notin DOMAIN fs
        THEN [ip |-> ip, found |-> FALSE, ping |-> "", tcp |-> "", rows |-> {}]
        ELSE [ ip    |-> ip,
               found |-> TRUE,
               ping  |-> IF "ping_scan" \in DOMAIN data
                         THEN IF data.ping_scan = [str |-> "active"]
                              THEN "active" ELSE "inactive"
                         ELSE "No Ping Scan Data available",
               tcp   |-> IF tcp # NoTcpScanData THEN "PORT     STATE"
                         ELSE "No TCP Scan Data",
               rows  |-> IF tcp # NoTcpScanData
                         THEN {<<k, tcp[k]>> : k \in DOMAIN tcp}
                         ELSE {} ]

\* ------------------------------------------------------------------------
\* State
\* ------------------------------------------------------------------------

VARIABLES
    pc,              \* where the process is: "menu", a prompt, "tcp_scan",
                     \* "crashed" (uncaught exception) or "exited"
    Target,          \* global Target
    tcp_results,     \* global tcp_results
    default_timeout, \* socket.setdefaulttimeout, in milliseconds
    start_port,      \* tcp_scan arguments and locals
    end_port,
    port,
    open_ports,
    closed_ports,
    filtered_ports,
    speed,           \* handle_choice: the speed typed, lower-cased
    ip_deleted,      \* retrieve_and_print_results: a calling frame has
                     \* deleted its ip and waits for the recursive call
    files,           \* the files of RESULTS_DIR: path -> JSON document
    crash,           \* the uncaught exception that ended the process
    msg,             \* the last status line printed
    attempt,         \* history: the last connection attempt of the scan
    last_call,       \* history: the operation the current choice invoked
    cached_for,      \* history: the target of the scan that set tcp_results
    saved,           \* history: the save of the current choice
    shown            \* history: what the current retrieval displayed

vars == << pc, Target, tcp_results, default_timeout, start_port,
           end_port, port, open_ports, closed_ports, filtered_ports, speed,
           ip_deleted, files, crash, msg, attempt, last_call, cached_for,
           saved, shown >>

scan_locals == << start_port, end_port, port, open_ports, closed_ports,
                  filtered_ports, speed >>

\* speed before anything is typed at the speed prompt.
NoSpeed == <<"<unset>">>

NoAttempt == [port |-> None, outcome |-> "none"]

NoCall == [op |-> "none", target |-> <<>>]

NoSave == [ target |-> <<>>, reply |-> FALSE, data |-> EmptyDict,
            cache |-> EmptyDict, tcp_for |-> <<>>, prior |-> EmptyDict,
            written |-> "none" ]

Init ==
    /\ pc = "menu"
    /\ Target = UnsetTarget
    /\ tcp_results = EmptyDict
    /\ default_timeout = None
    /\ start_port = None
    /\ end_port = None
    /\ port = None
    /\ open_ports = <<>>
    /\ closed_ports = <<>>
    /\ filtered_ports = <<>>
    /\ speed = NoSpeed
    /\ ip_deleted = FALSE
    /\ files = EmptyDict
    /\ crash = "none"
    /\ msg = ""
    /\ attempt = NoAttempt
    /\ last_call = NoCall
    /\ cached_for = <<>>
    /\ saved = NoSave
    /\ shown = NoReport

\* ------------------------------------------------------------------------
\* The menu: main reads a choice and handle_choice runs it.  Each input()
\* is a point where the process waits, so a handler that prompts is
\* continued by the action of its prompt.
\* ------------------------------------------------------------------------

\* Every choice starts with nothing invoked, saved or displayed yet.
Dispatch ==
    /\ pc = "menu"
    /\ attempt' = NoAttempt

\* Choice "1": ask for the target.
ChoiceSetTarget ==
    /\ Dispatch
    /\ pc' = "target_prompt"
    /\ msg' = "Enter the Target IP: "
    /\ last_call' = NoCall
    /\ saved' = NoSave
    /\ shown' = NoReport
    /\ UNCHANGED << Target, tcp_results, default_timeout, scan_locals,
                    ip_deleted, files, crash, cached_for >>

\* Target = input(...), then the loop  while not check_ip_format(Target).
\* The typed text is stored in Target before it is validated.
TargetPrompt ==
    /\ pc = "target_prompt"
    /\ \E a \in AddressInputs :
          /\ Target' = a
          /\ IF check_ip_format(a)
             THEN /\ pc' = "menu"
                  /\ msg' = "[+] Target Added ..."
             ELSE /\ pc' = "target_prompt"
                  /\ msg' = "[-] Invalid IP Format. Try Again ..."
    /\ UNCHANGED << tcp_results, default_timeout, scan_locals,
                    ip_deleted, files, crash, attempt, last_call,
                    cached_for, saved, shown >>

\* Choices "2" and "3" without a target: the message, then the target
\* prompt; the operation itself is not run.
NoTargetPrompt ==
    /\ ~TargetIsSet(Target)
    /\ pc' = "target_prompt"
    /\ msg' = "[-] No Target Set. Please Set it First!"
    /\ last_call' = NoCall
    /\ saved' = NoSave
    /\ shown' = NoReport
    /\ UNCHANGED << Target, tcp_results, default_timeout, scan_locals,
                    ip_deleted, files, crash, cached_for >>

\* Choice "2": ping_scan(Target).  A target with a '-' is taken for a range
\* and split into two ints, which raises ValueError for an address.
ChoicePing ==
    /\ Dispatch
    /\ \/ /\ TargetIsSet(Target)
          /\ last_call' = [op |-> "ping_scan", target |-> Target]
          /\ IF Contains(Target, "-")
             THEN /\ pc' = "crashed"
                  /\ crash' = "ValueError"
                  /\ msg' = msg
             ELSE /\ \E reply \in BOOLEAN :
                        msg' = IF reply THEN "[+] is active"
                               ELSE "[-] is inactive"
                  /\ pc' = "menu"
                  /\ crash' = crash
          /\ saved' = NoSave
          /\ shown' = NoReport
          /\ UNCHANGED << Target, tcp_results, default_timeout, scan_locals,
                          ip_deleted, files, cached_for >>
       \/ NoTargetPrompt

\* Choice "3": with a target, ask for the ports.
ChoiceScan ==
    /\ Dispatch
    /\ \/ /\ TargetIsSet(Target)
          /\ pc' = "port_prompt"
          /\ msg' = "Enter port or range (e.g. 22 or 20-80): "
          /\ last_call' = NoCall
          /\ saved' = NoSave
          /\ shown' = NoReport
          /\ UNCHANGED << Target, tcp_results, default_timeout, scan_locals,
                          ip_deleted, files, crash, cached_for >>
       \/ NoTargetPrompt

\* port_input = input(...), parsed into start_port and end_port.
PortPrompt ==
    /\ pc = "port_prompt"
    /\ \E s \in PortInputs :
          IF PortInputOk(s)
          THEN /\ start_port' = ParsedStart(s)
               /\ end_port' = ParsedEnd(s)
               /\ pc' = "speed_prompt"
               /\ msg' = "Choose scan speed (fast, normal, slow): "
               /\ crash' = crash
          ELSE /\ pc' = "crashed"
               /\ crash' = "ValueError"
               /\ UNCHANGED << start_port, end_port, msg >>
    /\ UNCHANGED << Target, tcp_results, default_timeout, port,
                    open_ports, closed_ports, filtered_ports, speed,
                    ip_deleted, files, attempt, last_call, cached_for, saved,
                    shown >>

\* speed = input(...).lower(), asked again until it is one of the three
\* speeds; then tcp_scan(Target, start_port, end_port, speed) starts: the
\* end defaults to the start, the timeout is set, the lists are empty.
SpeedPrompt ==
    /\ pc = "speed_prompt"
    /\ \E sp \in SpeedInputs :
          /\ speed' = Lower(sp)
          /\ IF SpeedOk(Lower(sp))
             THEN
               /\ pc' = "tcp_scan"
               /\ last_call' = [op |-> "tcp_scan", target |-> Target]
               /\ end_port' = IF end_port = None THEN start_port ELSE end_port
               /\ default_timeout' = Timeout(Lower(sp))
               /\ port' = start_port
               /\ open_ports' = <<>>
               /\ closed_ports' = <<>>
               /\ filtered_ports' = <<>>
               /\ msg' = "Starting TCP scan"
             ELSE
               /\ pc' = "speed_prompt"
               /\ msg' = "[-] Invalid speed choice. Try Again ..."
               /\ UNCHANGED << last_call, end_port, default_timeout, port,
                               open_ports, closed_ports, filtered_ports >>
    /\ UNCHANGED << Target, tcp_results, start_port, ip_deleted,
                    files, crash, attempt, cached_for, saved, shown >>

\* ------------------------------------------------------------------------
\* tcp_scan: the loop  for port in range(start_port, end_port + 1)
\* ------------------------------------------------------------------------

\* Variant of LoopDone: the loop stops one port early.
LoopDone_early(p, last) == p >= last

\* for port in range(start_port, end_port + 1): the loop is over when the
\* next port is past end_port.
LoopDone(p, last) == p > last

\* Variant of NextPort: every second port is skipped.
NextPort_skip(p) == p + 2

\* The port range() yields after p.
NextPort(p) == p + 1

\* Variant of Append1: the port is put in front of the list.
Append1_prepend(list, cls, p, which) ==
    IF cls = which THEN <<p>> \o list ELSE list

\* A sequence with one more element (list.append).
Append1(list, cls, p, which) == IF cls = which THEN Append(list, p) ELSE list

\* One iteration.  The socket is AF_INET, so an address that is not IPv4
\* makes connect_ex raise socket.gaierror; a port above PortLimit makes it
\* raise OverflowError; neither is caught.  Otherwise the network decides.
ScanStep ==
    /\ pc = "tcp_scan"
    /\ ~LoopDone(port, end_port)
    /\ IF ~IPv4Ok(Target)
       THEN /\ pc' = "crashed"
            /\ crash' = "gaierror"
            /\ UNCHANGED << port, open_ports, closed_ports, filtered_ports,
                            attempt >>
       ELSE IF port < 0 \/ port > PortLimit
       THEN /\ pc' = "crashed"
            /\ crash' = "OverflowError"
            /\ UNCHANGED << port, open_ports, closed_ports, filtered_ports,
                            attempt >>
       ELSE \E outcome \in NetOutcomes :
               LET cls == PortClass(outcome)
               IN  /\ open_ports' = Append1(open_ports, cls, port, "open")
                   /\ closed_ports' = Append1(closed_ports, cls, port, "closed")
                   /\ filtered_ports' =
                          Append1(filtered_ports, cls, port, "filtered")
                   /\ attempt' = [port |-> port, outcome |-> outcome]
                   /\ port' = NextPort(port)
                   /\ UNCHANGED << pc, crash >>
    /\ UNCHANGED << Target, tcp_results, default_timeout, start_port,
                    end_port, speed, ip_deleted, files, msg, last_call,
                    cached_for, saved, shown >>

\* tcp_scan: the dict that becomes tcp_results.
ScanResults(open, filtered) == [open_ports |-> open, filtered_ports |-> filtered]

\* After the loop: the summary is printed and tcp_results is replaced by the
\* open and the filtered ports; the locals are gone with the call.
ScanFinish ==
    /\ pc = "tcp_scan"
    /\ LoopDone(port, end_port)
    /\ tcp_results' = ScanResults(open_ports, filtered_ports)
    /\ cached_for' = Target
    /\ msg' = "Scan completed"
    /\ pc' = "menu"
    /\ start_port' = None
    /\ end_port' = None
    /\ port' = None
    /\ open_ports' = <<>>
    /\ closed_ports' = <<>>
    /\ filtered_ports' = <<>>
    /\ speed' = NoSpeed
    /\ UNCHANGED << Target, default_timeout, ip_deleted, files, crash,
                    attempt, last_call, saved, shown >>

\* The user interrupts the scan (Ctrl-C): KeyboardInterrupt is not caught
\* anywhere, so the process ends where it is and tcp_results is not assigned.
ScanInterrupt ==
    /\ pc = "tcp_scan"
    /\ pc' = "crashed"
    /\ crash' = "KeyboardInterrupt"
    /\ UNCHANGED << Target, tcp_results, default_timeout, scan_locals,
                    ip_deleted, files, msg, attempt, last_call, cached_for,
                    saved, shown >>

\* ------------------------------------------------------------------------
\* Save and retrieve
\* ------------------------------------------------------------------------

\* What becomes of the file when  open(filepath, 'w')  and  json.dump  run:
\* written, not opened (the file is as before), or opened but the dump
\* failed (the file is truncated).  Every exception is caught and reported.
WriteOutcomes == {"ok", "open_failed", "dump_failed"}

\* What RESULTS_DIR holds under a path; no file reads as the empty dict,
\* which no save writes.
FileAt(fs, path) == IF path \in DOMAIN fs THEN fs[path] ELSE EmptyDict

\* Variant of WriteFile: a file that exists is not written again.
WriteFile_keepOld(fs, path, data, w) ==
    IF w = "open_failed" \/ path \in DOMAIN fs THEN fs
    ELSE [f \in DOMAIN fs \cup {path} |->
             IF f = path
             THEN (IF w = "ok" THEN data ELSE PartialFile)
             ELSE fs[f]]

WriteFile(fs, path, data, w) ==
    IF w = "open_failed" THEN fs
    ELSE [f \in DOMAIN fs \cup {path} |->
             IF f = path
             THEN (IF w = "ok" THEN data ELSE PartialFile)
             ELSE fs[f]]

\* Variant of CacheAfterSave: the cache is only cleared when the write
\* succeeded.
CacheAfterSave_keepOnFailure(cache, w) ==
    IF w = "ok" THEN EmptyDict ELSE cache

\* handle_choice, choice "4":  tcp_results = {}  follows the call of
\* save_results_to_json, which has caught whatever the write raised.
CacheAfterSave(cache, w) == EmptyDict

\* Choice "4": with a target, the probe is run for the Status, the record is
\* written under the target's file name and tcp_results is cleared.
ChoiceSave ==
    /\ Dispatch
    /\ IF TargetIsSet(Target)
       THEN /\ last_call' = [op |-> "save_results_to_json", target |-> Target]
            /\ IF Contains(Target, "-")
               THEN /\ pc' = "crashed"
                    /\ crash' = "ValueError"
                    /\ UNCHANGED << files, tcp_results, cached_for, saved, msg >>
               ELSE \E reply \in BOOLEAN, w \in WriteOutcomes :
                       LET data == SaveData(Target, tcp_results, ping_scan(reply))
                           path == SaveFilepath(SaveFilename(Target))
                       IN  /\ files' = WriteFile(files, path, data, w)
                           /\ saved' = [ target  |-> Target,
                                         reply   |-> reply,
                                         data    |-> data,
                                         cache   |-> tcp_results,
                                         tcp_for |-> cached_for,
                                         prior   |-> FileAt(files, path),
                                         written |-> w ]
                           /\ msg' = IF w = "ok" THEN "[+] Results saved"
                                     ELSE "[-] Error saving results"
                           /\ tcp_results' = CacheAfterSave(tcp_results, w)
                           /\ cached_for' =
                                 IF Truthy(CacheAfterSave(tcp_results, w))
                                 THEN cached_for ELSE <<>>
                           /\ UNCHANGED << pc, crash >>
       ELSE /\ msg' = "[-] No Target Set. Please Set it First!"
            /\ last_call' = NoCall
            /\ saved' = NoSave
            /\ UNCHANGED << pc, crash, files, tcp_results, cached_for >>
    /\ shown' = NoReport
    /\ UNCHANGED << Target, default_timeout, scan_locals, ip_deleted >>

\* Choice "5": retrieve_and_print_results() asks for an address.
ChoiceRetrieve ==
    /\ Dispatch
    /\ pc' = "retrieve_prompt"
    /\ ip_deleted' = FALSE
    /\ msg' = "Enter the IP address of the results you'd like to retrieve: "
    /\ last_call' = NoCall
    /\ saved' = NoSave
    /\ shown' = NoReport
    /\ UNCHANGED << Target, tcp_results, default_timeout, scan_locals, files,
                    crash, cached_for >>

\* ip = input(...).  An invalid ip is deleted and the function calls itself;
\* when that call returns, the caller goes on to use its deleted ip, which
\* raises UnboundLocalError.  A valid ip is looked up: no file is reported,
\* a file that is not a JSON document makes json.load raise, and a document
\* is displayed.
RetrievePrompt ==
    /\ pc = "retrieve_prompt"
    /\ \E ip \in AddressInputs :
          IF ~check_ip_format(ip)
          THEN /\ ip_deleted' = TRUE
               /\ msg' = "[-] Invalid IP Format. Try Again ..."
               /\ UNCHANGED << pc, crash, shown >>
          ELSE LET filename == RetrieveFilename(ip)
               IN  IF filename \in DOMAIN files /\ files[filename] = PartialFile
                   THEN /\ pc' = "crashed"
                        /\ crash' = "JSONDecodeError"
                        /\ UNCHANGED << ip_deleted, msg, shown >>
                   ELSE /\ shown' = retrieve_report(ip, files)
                        /\ msg' = IF filename \in DOMAIN files
                                  THEN "Results for"
                                  ELSE "[-] No saved results found for IP"
                        /\ IF ip_deleted
                           THEN /\ pc' = "crashed"
                                /\ crash' = "UnboundLocalError"
                           ELSE /\ pc' = "menu"
                                /\ crash' = crash
                        /\ UNCHANGED ip_deleted
    /\ UNCHANGED << Target, tcp_results, default_timeout, scan_locals,
                    files, attempt, last_call, cached_for, saved >>

\* Choice "6": exit(0).
ChoiceExit ==
    /\ Dispatch
    /\ pc' = "exited"
    /\ msg' = "Exiting..."
    /\ last_call' = NoCall
    /\ saved' = NoSave
    /\ shown' = NoReport
    /\ UNCHANGED << Target, tcp_results, default_timeout, scan_locals,
                    ip_deleted, files, crash, cached_for >>

\* Any other choice.
ChoiceInvalid ==
    /\ Dispatch
    /\ msg' = "Invalid choice. Please select a valid option."
    /\ last_call' = NoCall
    /\ saved' = NoSave
    /\ shown' = NoReport
    /\ UNCHANGED << pc, Target, tcp_results, default_timeout, scan_locals,
                    ip_deleted, files, crash, cached_for >>

Next ==
    \/ ChoiceSetTarget
    \/ TargetPrompt
    \/ ChoicePing
    \/ ChoiceScan
    \/ PortPrompt
    \/ SpeedPrompt
    \/ ScanStep
    \/ ScanFinish
    \/ ScanInterrupt
    \/ ChoiceSave
    \/ ChoiceRetrieve
    \/ RetrievePrompt
    \/ ChoiceExit
    \/ ChoiceInvalid

Spec == Init /\ [][Next]_vars

\* ------------------------------------------------------------------------
\* Properties
\* ------------------------------------------------------------------------

ToSet(list) == {list[i] : i \in 1..Len(list)}

\* The loop of tcp_scan has run over the whole range.
ScanCompleted == pc = "tcp_scan" /\ port > end_port

ValidRange == 1 <= start_port /\ start_port <= end_port /\ end_port <= PortLimit

\* C1: when tcp_scan has finished its loop over a valid range, the open,
\* closed and filtered lists are pairwise disjoint, together hold exactly
\* the ports start_port..end_port, and hold no port twice.
C1_Partition ==
    (ScanCompleted /\ ValidRange) =>
        /\ ToSet(open_ports) \cap ToSet(closed_ports) = {}
        /\ ToSet(open_ports) \cap ToSet(filtered_ports) = {}
        /\ ToSet(closed_ports) \cap ToSet(filtered_ports) = {}
        /\ ToSet(open_ports) \cup ToSet(closed_ports) \cup ToSet(filtered_ports)
               = start_port..end_port
        /\ Len(open_ports) + Len(closed_ports) + Len(filtered_ports)
               = end_port - start_port + 1

C1_Witness ==
    /\ ScanCompleted /\ ValidRange
    /\ start_port < end_port
    /\ open_ports # <<>>
    /\ closed_ports # <<>>

\* C2: during a scan, the port of the last connection attempt is in the list
\* its outcome calls for: accepted in open, refused in closed, timed out in
\* filtered and in neither of the others.
C2_ClassByOutcome ==
    (pc = "tcp_scan" /\ attempt # NoAttempt) =>
        /\ attempt.outcome = "accepted" => attempt.port \in ToSet(open_ports)
        /\ attempt.outcome = "refused" => attempt.port \in ToSet(closed_ports)
        /\ attempt.outcome = "timedout" =>
              /\ attempt.port \in ToSet(filtered_ports)
              /\ attempt.port \notin ToSet(closed_ports)
              /\ attempt.port \notin ToSet(open_ports)

\* C3: at the menu, a cached scan result is a result of a scan of the
\* current target: setting another target has discarded the older result.
C3_NewTargetClearsCache ==
    (pc = "menu" /\ Truthy(tcp_results)) => cached_for = Target

\* C4: the record a save has written under a target holds, as its tcp_scan,
\* the absence marker or the result of a scan of that same target.
C4_SavedResultOfTarget ==
    (saved.written = "ok" /\ saved.data.tcp_scan # NoTcpScanData) =>
        saved.tcp_for = saved.data.ping.Target

\* C5: an operation the menu has invoked got a target that is not "0" and
\* that check_ip_format accepts, and while the target is "0" the requested
\* operation is not invoked.
C5_TargetValid ==
    /\ last_call.op # "none" =>
          /\ last_call.target # UnsetTarget
          /\ check_ip_format(last_call.target)
    /\ Target = UnsetTarget => last_call.op = "none"

C5_Witness ==
    /\ last_call.op = "tcp_scan"
    /\ last_call.target = <<":", ":", "1">>
    /\ pc = "tcp_scan"

\* C6: a scan whose start is above its end does not attempt a connection
\* and does not replace the cached result.
C6_ReversedRangeRejected ==
    [][(pc = "tcp_scan" /\ start_port > end_port) =>
           (tcp_results' = tcp_results /\ attempt' = attempt)]_vars

\* C7: no malformed input ends the process: it is never ended by the
\* ValueError of a malformed port range or the UnboundLocalError that
\* follows a malformed address at the retrieve prompt.
C7_NoValidationCrash ==
    pc = "crashed" => crash \notin {"ValueError", "UnboundLocalError"}

\* C8: a retrieval that finds the record of an address displays the saved
\* liveness status and the saved port lists of that record.
C8_RoundTrip ==
    shown.found =>
        LET R == files[RetrieveFilename(shown.ip)]
        IN  /\ shown.ping = R.ping.Status
            /\ IF R.tcp_scan = NoTcpScanData
               THEN shown.tcp = "No TCP Scan Data" /\ shown.rows = {}
               ELSE shown.rows = {<<k, R.tcp_scan[k]>> : k \in DOMAIN R.tcp_scan}

\* C9: a retrieval of a valid address that has no file reports that there
\* are no saved results and displays no record, and the call that was given
\* the address raises nothing: unless an earlier malformed entry has left a
\* calling frame behind, the process is back at the menu.
C9_NotFound ==
    (shown # NoReport /\ RetrieveFilename(shown.ip) \notin DOMAIN files) =>
        /\ ~shown.found
        /\ shown.ping = "" /\ shown.tcp = "" /\ shown.rows = {}
        /\ msg = "[-] No saved results found for IP"
        /\ ~ip_deleted => (pc = "menu" /\ crash = "none")

C9_Witness ==
    /\ shown # NoReport
    /\ RetrieveFilename(shown.ip) \notin DOMAIN files
    /\ files # EmptyDict
    /\ ~ip_deleted
    /\ pc = "menu"

\* C10: the Status of the record a save has written is "active" exactly
\* when the probe of that save got a reply.
C10_StatusReflectsProbe ==
    saved.written = "ok" => (saved.data.ping.Status = "active" <=> saved.reply)

\* C11: a speed that is not fast, normal or slow starts no scan: the step
\* that reads it sets no socket timeout, attempts no connection, calls no
\* operation, produces no result and stays at the speed prompt.
C11_UnrecognizedSpeedRejected ==
    [][(pc = "speed_prompt" /\ speed' \notin Speeds) =>
           /\ pc' = "speed_prompt"
           /\ default_timeout' = default_timeout
           /\ attempt' = attempt
           /\ last_call' = last_call
           /\ tcp_results' = tcp_results
           /\ open_ports' = open_ports
           /\ closed_ports' = closed_ports
           /\ filtered_ports' = filtered_ports]_vars

C11_Witness ==
    /\ pc = "speed_prompt"
    /\ speed = <<"t", "u", "r", "b", "o">>
    /\ msg = "[-] Invalid speed choice. Try Again ..."

\* C12: a scan that has reached its loop has a range with
\* 1 <= start <= end <= 65535, and every connection attempt goes to a port
\* in 1..65535.
C12_PortsInRange ==
    /\ pc = "tcp_scan" => ValidRange
    /\ attempt # NoAttempt => attempt.port \in 1..PortLimit

\* The file a save writes for its target.
SavedPath == SaveFilepath(SaveFilename(saved.target))

\* A stored document that holds port lists.
HasPortData(doc) ==
    /\ "tcp_scan" \in DOMAIN doc
    /\ doc.tcp_scan # NoTcpScanData

\* C13: after a save whose write succeeded, the stored record of the target
\* is exactly the record of that save, whatever was stored before.
C13_SaveOverwrites ==
    saved.written = "ok" =>
        /\ SavedPath \in DOMAIN files
        /\ files[SavedPath] = saved.data

C13_Witness ==
    /\ saved.written = "ok"
    /\ HasPortData(saved.prior)
    /\ HasPortData(saved.data)
    /\ saved.prior # saved.data
    /\ files[SavedPath] = saved.data

\* C14: a save whose write failed is reported, ends no process, and leaves
\* under the key what was stored there before the save.
C14_FailedSaveKeepsRecord ==
    saved.written \in {"open_failed", "dump_failed"} =>
        /\ pc = "menu"
        /\ crash = "none"
        /\ msg = "[-] Error saving results"
        /\ FileAt(files, SavedPath) = saved.prior

StrictlyAscending(list) ==
    \A i \in 1..(Len(list) - 1) : list[i] < list[i + 1]

\* C15: the open and the filtered list of a scan, while it runs and in the
\* result it caches, are strictly ascending by port number.
C15_Ascending ==
    /\ pc = "tcp_scan" =>
          /\ StrictlyAscending(open_ports)
          /\ StrictlyAscending(filtered_ports)
    /\ Truthy(tcp_results) =>
          /\ StrictlyAscending(tcp_results.open_ports)
          /\ StrictlyAscending(tcp_results.filtered_ports)

C15_Witness ==
    /\ pc = "menu"
    /\ Truthy(tcp_results)
    /\ Len(tcp_results.open_ports) >= 2

\* The number of ports of the range of the running scan.
RangeSize == IF end_port >= start_port THEN end_port - start_port + 1 ELSE 0

\* C16: a step of a running scan changes the cached result only when the
\* loop has run over the whole range and the scan returns, and then every
\* port of the range is in one of the lists; a scan that is interrupted or
\* fails leaves the cached result as it was.
C16_AbortKeepsCache ==
    [][(pc = "tcp_scan" /\ tcp_results' # tcp_results) =>
           /\ port > end_port
           /\ pc' = "menu"
           /\ Len(open_ports) + Len(closed_ports) + Len(filtered_ports)
                  = RangeSize]_vars

C16_Witness ==
    /\ pc = "crashed"
    /\ crash \in {"KeyboardInterrupt", "OverflowError"}
    /\ port <= end_port
    /\ Len(open_ports) + Len(closed_ports) > 0
    /\ Truthy(tcp_results)

\* The ports the running scan has classified.
Classified == ToSet(open_ports) \cup ToSet(closed_ports) \cup ToSet(filtered_ports)

\* C17: at every point of a scan the ports attempted so far are exactly the
\* ports from start_port up to the one before the next, each classified
\* once, the last attempt being the port just before the next one: the
\* ports are taken one at a time in ascending order, and a port is attempted
\* only when its predecessor is classified.
C17_Sequential ==
    pc = "tcp_scan" =>
        /\ Classified = start_port..(port - 1)
        /\ Len(open_ports) + Len(closed_ports) + Len(filtered_ports)
               = Cardinality(Classified)
        /\ IF port > start_port
           THEN attempt.port = port - 1 /\ attempt.port \in Classified
           ELSE attempt = NoAttempt
        /\ start_port <= end_port => port <= end_port + 1

C17_Witness ==
    /\ pc = "tcp_scan"
    /\ port = start_port + 2
    /\ port > end_port

\* C18: after a save with a target set the cached result is empty, also
\* when the write failed; a failed save has stored no record: the file of
\* the target is as it was before, or cut short.
C18_SaveClearsCache ==
    saved.written # "none" =>
        /\ tcp_results = EmptyDict
        /\ saved.written # "ok" =>
              FileAt(files, SavedPath) \in {saved.prior, PartialFile}

C18_Witness ==
    /\ saved.written = "open_failed"
    /\ Truthy(saved.cache)
    /\ tcp_results = EmptyDict
    /\ SavedPath \notin DOMAIN files

\* C19: the tcp_scan of the record of a save is the cached result if a scan
\* has completed since the start or the previous save, whatever it found,
\* and the absence marker if not; so a save that follows a save with no
\* scan in between stores the marker in place of the earlier port data.
C19_SavedTcpField ==
    saved.written # "none" =>
        /\ IF saved.tcp_for # <<>>
           THEN /\ saved.data.tcp_scan = saved.cache
                /\ DOMAIN saved.cache = {"open_ports", "filtered_ports"}
           ELSE saved.data.tcp_scan = NoTcpScanData
        /\ (saved.written = "ok" /\ saved.tcp_for = <<>>) =>
              files[SavedPath].tcp_scan = NoTcpScanData

C19_Witness ==
    /\ saved.written = "ok"
    /\ HasPortData(saved.prior)
    /\ saved.prior.ping.Target = saved.target
    /\ saved.tcp_for = <<>>
    /\ files[SavedPath].tcp_scan = NoTcpScanData

====
